---- MODULE Spec2Model ----
(***************************************************************************)
(* Model of pyzoo/zoo/pipeline/api/keras2/layers/convolutional.py: the     *)
(* constructors of Conv1D, Cropping1D, ZeroPadding1D and ZeroPadding2D,    *)
(* which normalize their arguments and delegate to ZooKeras2Layer.__init__. *)
(***************************************************************************)
EXTENDS Integers, Sequences, FiniteSets, TLC

\* ---------------------------------------------------------------- bounds
\* Padding / cropping elements are drawn from 0..MaxPad.
MaxPad == 1
\* Padding sequences have 0..MaxLen elements (2 and 4 are the lengths the
\* code distinguishes; 0, 1, 3 are malformed).
MaxLen == 4
\* The collaborator is called at most MaxCalls times in a run.
MaxCalls == 2

\* ------------------------------------------------------- Python values
\* A Python value: its type t, a number n, a string s, its elements e.
PyVal(t, n, s, e) == [t |-> t, n |-> n, s |-> s, e |-> e]
None_ == PyVal("NoneType", 0, "", <<>>)
MkInt(k) == PyVal("int", k, "", <<>>)
\* bool is a subclass of int: True == 1, False == 0.
MkBool(b) == PyVal("bool", IF b THEN 1 ELSE 0, "", <<>>)
MkStr(x) == PyVal("str", 0, x, <<>>)
MkTuple(es) == PyVal("tuple", 0, "", es)
MkList(es) == PyVal("list", 0, "", es)
MkDict(kvs) == PyVal("dict", 0, "", kvs)
\* An exception raised by the operation named in s.
TypeError(op) == PyVal("TypeError", 0, op, <<>>)
\* Marks a parameter the caller did not pass.
Omitted == PyVal("<omitted>", 0, "", <<>>)

IsExc(x) == x.t \in {"TypeError", "BaseError"}
IsSeq(x) == x.t \in {"tuple", "list"}

\* isinstance(x, int)
IsInstanceInt(x) == x.t \in {"int", "bool"}

\* bool(x): the truth value Python's `if x` tests.
Truthy(x) ==
  CASE x.t = "NoneType" -> FALSE
    [] x.t \in {"int", "bool"} -> x.n # 0
    [] x.t = "str" -> x.s # ""
    [] x.t \in {"tuple", "list", "dict"} -> Len(x.e) > 0
    [] OTHER -> TRUE

\* len(x): an Int, or the TypeError Python raises for an object without len.
PyLen(x) ==
  IF x.t \in {"tuple", "list"} THEN MkInt(Len(x.e)) ELSE TypeError("len")

\* list(x): a new list with the elements of x, or TypeError when x is not
\* iterable.
PyList(x) ==
  IF x.t \in {"tuple", "list"} THEN MkList(x.e) ELSE TypeError("list")

\* A parameter's value after default binding.
Bind(given, default) == IF given = Omitted THEN default ELSE given

\* Mutant: the shape is forwarded as passed, without the list() conversion.
Mut_NormShape_NoList(input_shape) ==
  IF Truthy(input_shape) THEN input_shape ELSE None_

\* Mutant: `list(input_shape) if input_shape is not None else None`.
Mut_NormShape_IsNotNone(input_shape) ==
  IF input_shape # None_ THEN PyList(input_shape) ELSE None_

\* `list(input_shape) if input_shape else None`
NormShape(input_shape) ==
  IF Truthy(input_shape) THEN PyList(input_shape) ELSE None_

\* ------------------------------------------------------------ the state
VARIABLES
  cls,        \* class being instantiated, "none" when no instantiation is pending
  given,      \* the arguments the caller passed (Omitted where not passed)
  outcome,    \* "none", "ok" (the constructor returned) or "raised"
  error,      \* the exception that reached the caller, None_ when none
  forwarded,  \* positional arguments ZooKeras2Layer.__init__ received, <<>> if not called
  fwdKw,      \* keyword options ZooKeras2Layer.__init__ received
  baseCalls   \* number of calls made to ZooKeras2Layer.__init__ so far

vars == <<cls, given, outcome, error, forwarded, fwdKw, baseCalls>>

NoArgs == [input_shape |-> Omitted, kwargs |-> MkDict(<<>>)]

Init ==
  /\ cls = "none"
  /\ given = NoArgs
  /\ outcome = "none"
  /\ error = None_
  /\ forwarded = <<>>
  /\ fwdKw = MkDict(<<>>)
  /\ baseCalls = 0

\* --------------------------------------------------------------- inputs
PadElems == {MkInt(k) : k \in 0..MaxPad}

\* All sequences of exactly n padding elements.
PadSeqs(n) == [1..n -> PadElems]

\* What a caller may pass as padding / cropping: nothing, None, an int, a
\* bool, or a tuple or list of 0..MaxLen ints.
PaddingInputs ==
  {Omitted, None_, MkBool(TRUE)} \cup PadElems
    \cup UNION {{MkTuple(es), MkList(es)} : es \in UNION {PadSeqs(n) : n \in 0..MaxLen}}

\* What a caller may pass as input_shape: nothing, None, empty and non-empty
\* tuples and lists (None marks a variable dimension), and non-sequences.
ShapeInputs ==
  { Omitted, None_, MkTuple(<<>>), MkList(<<>>),
    MkTuple(<<MkInt(3), MkInt(16)>>), MkList(<<MkInt(2), MkInt(8), MkInt(8)>>),
    MkTuple(<<None_, MkInt(128)>>), MkInt(0), MkInt(5) }

KwInputs == {MkDict(<<>>), MkDict(<<MkStr("name"), MkStr("layer1")>>)}

DataFormatInputs == {Omitted, MkStr("channels_first"), MkStr("channels_last")}

\* The optional Conv1D parameters a caller passes: none of them, all of them,
\* or one of them alone.  Each parameter has a value of its own.
ConvGivenValues ==
  [ strides |-> MkInt(2), padding |-> MkStr("same"), activation |-> MkStr("relu"),
    use_bias |-> MkBool(FALSE), kernel_initializer |-> MkStr("he_normal"),
    bias_initializer |-> MkStr("one"), kernel_regularizer |-> MkStr("l2"),
    bias_regularizer |-> MkStr("l1") ]

ConvOptNames == DOMAIN ConvGivenValues

ConvOptInputs ==
  { [k \in ConvOptNames |-> IF k \in ks THEN ConvGivenValues[k] ELSE Omitted] :
      ks \in {{}, ConvOptNames} \cup {{k} : k \in ConvOptNames} }

FiltersInputs == {MkInt(1), MkInt(12)}
KernelSizeInputs == {MkInt(4), MkTuple(<<MkInt(4)>>)}

\* ------------------------------------------------- the four constructors
\* The exception raised while the statements before the super().__init__
\* call and its argument list are evaluated, in evaluation order; None_ when
\* every one of them evaluates.
FirstExc(args) ==
  IF \E i \in 1..Len(args) : IsExc(args[i])
  THEN args[CHOOSE i \in 1..Len(args) :
              IsExc(args[i]) /\ \A j \in 1..(i - 1) : ~IsExc(args[j])]
  ELSE None_

\* ZooKeras2Layer.__init__(None, *args, **kwargs): the collaborator records
\* the call and either returns or raises an error of its own.
SuperInit(args, kwargs, raises) ==
  /\ baseCalls' = baseCalls + 1
  /\ forwarded' = args
  /\ fwdKw' = kwargs
  /\ outcome' = IF raises THEN "raised" ELSE "ok"
  /\ error' = IF raises THEN PyVal("BaseError", 0, "base", <<>>) ELSE None_

\* An exception leaves __init__ before the super().__init__ call is made.
Propagate(exc) ==
  /\ outcome' = "raised"
  /\ error' = exc
  /\ UNCHANGED <<forwarded, fwdKw, baseCalls>>

\* Mutant: the constructor returns without calling super().__init__.
Mut_Delegate_NoSuperCall(args, kwargs, raises) ==
  IF FirstExc(args) # None_
  THEN Propagate(FirstExc(args))
  ELSE /\ outcome' = "ok"
       /\ error' = None_
       /\ UNCHANGED <<forwarded, fwdKw, baseCalls>>

\* Mutant: super().__init__ is called before the arguments are normalized, so
\* a failing normalization follows the call instead of preventing it.
Mut_Delegate_CallsFirst(args, kwargs, raises) ==
  IF FirstExc(args) # None_
  THEN /\ baseCalls' = baseCalls + 1
       /\ forwarded' = <<None_>>
       /\ fwdKw' = kwargs
       /\ outcome' = "raised"
       /\ error' = FirstExc(args)
  ELSE SuperInit(args, kwargs, raises)

\* Body of an __init__ whose positional arguments for the base class
\* evaluate to args: the call is made only when all of them evaluated.
Delegate(args, kwargs, raises) ==
  IF FirstExc(args) # None_
  THEN Propagate(FirstExc(args))
  ELSE SuperInit(args, kwargs, raises)

\* Mutant: kernel_initializer and bias_initializer change places in the call.
Mut_Conv1D_args_Swapped(g) ==
  << None_,
     g.filters,
     g.kernel_size,
     Bind(g.strides, MkInt(1)),
     Bind(g.padding, MkStr("valid")),
     Bind(g.activation, None_),
     Bind(g.use_bias, MkBool(TRUE)),
     Bind(g.bias_initializer, MkStr("zero")),
     Bind(g.kernel_initializer, MkStr("glorot_uniform")),
     Bind(g.kernel_regularizer, None_),
     Bind(g.bias_regularizer, None_),
     NormShape(Bind(g.input_shape, None_)) >>

\* Conv1D: the positional arguments of the super().__init__ call.
Conv1D_args(g) ==
  << None_,
     g.filters,
     g.kernel_size,
     Bind(g.strides, MkInt(1)),
     Bind(g.padding, MkStr("valid")),
     Bind(g.activation, None_),
     Bind(g.use_bias, MkBool(TRUE)),
     Bind(g.kernel_initializer, MkStr("glorot_uniform")),
     Bind(g.bias_initializer, MkStr("zero")),
     Bind(g.kernel_regularizer, None_),
     Bind(g.bias_regularizer, None_),
     NormShape(Bind(g.input_shape, None_)) >>

\* Cropping1D: the positional arguments of the super().__init__ call.
Cropping1D_args(g) ==
  << None_,
     Bind(g.cropping, MkTuple(<<MkInt(1), MkInt(1)>>)),
     NormShape(Bind(g.input_shape, None_)) >>

\* Mutant: the scalar padding is not expanded.
Mut_ZeroPadding1D_padding_NoExpand(padding) == padding

\* Mutant: the wrapper rejects a sequence that is not a pair itself.
Mut_ZeroPadding1D_padding_Validates(padding) ==
  IF IsInstanceInt(padding) THEN MkTuple(<<padding, padding>>)
  ELSE IF IsSeq(padding) /\ Len(padding.e) # 2 THEN TypeError("ZeroPadding1D")
       ELSE padding

\* ZeroPadding1D: `if isinstance(padding, int): padding = (padding, padding)`
ZeroPadding1D_padding(padding) ==
  IF IsInstanceInt(padding) THEN MkTuple(<<padding, padding>>) ELSE padding

\* ZeroPadding1D: the positional arguments of the super().__init__ call.
ZeroPadding1D_args(g) ==
  << None_,
     ZeroPadding1D_padding(Bind(g.padding, MkInt(1))),
     NormShape(Bind(g.input_shape, None_)) >>

\* Mutant: (a, b) becomes (a, b, a, b).
Mut_ZeroPadding2D_padding_Interleaved(padding) ==
  IF IsExc(PyLen(padding)) THEN PyLen(padding)
  ELSE IF PyLen(padding) = MkInt(2)
       THEN MkTuple(<<padding.e[1], padding.e[2], padding.e[1], padding.e[2]>>)
       ELSE padding

\* Mutant: `if len(padding) >= 2`.
Mut_ZeroPadding2D_padding_AtLeastTwo(padding) ==
  IF IsExc(PyLen(padding)) THEN PyLen(padding)
  ELSE IF PyLen(padding).n >= 2
       THEN MkTuple(<<padding.e[1], padding.e[1], padding.e[2], padding.e[2]>>)
       ELSE padding

\* ZeroPadding2D: `if len(padding) == 2: padding = (padding[0], padding[0],
\* padding[1], padding[1])`; len raises for a value without a length.
ZeroPadding2D_padding(padding) ==
  IF IsExc(PyLen(padding)) THEN PyLen(padding)
  ELSE IF PyLen(padding) = MkInt(2)
       THEN MkTuple(<<padding.e[1], padding.e[1], padding.e[2], padding.e[2]>>)
       ELSE padding

\* Mutant: data_format defaults to 'channels_last'.
Mut_ZeroPadding2D_args_ChannelsLast(g) ==
  << None_,
     ZeroPadding2D_padding(Bind(g.padding, MkTuple(<<MkInt(1), MkInt(1)>>))),
     Bind(g.data_format, MkStr("channels_last")),
     NormShape(Bind(g.input_shape, None_)) >>

\* ZeroPadding2D: the positional arguments of the super().__init__ call.
ZeroPadding2D_args(g) ==
  << None_,
     ZeroPadding2D_padding(Bind(g.padding, MkTuple(<<MkInt(1), MkInt(1)>>))),
     Bind(g.data_format, MkStr("channels_first")),
     NormShape(Bind(g.input_shape, None_)) >>

\* The caller may instantiate a layer when no instantiation is pending.
CanInstantiate == cls = "none" /\ baseCalls < MaxCalls

Conv1D_init ==
  /\ CanInstantiate
  /\ \E filters \in FiltersInputs, kernel_size \in KernelSizeInputs,
        opt \in ConvOptInputs, input_shape \in ShapeInputs,
        kwargs \in KwInputs, raises \in BOOLEAN :
       LET g == [k \in ConvOptNames |-> opt[k]] @@
                [filters |-> filters, kernel_size |-> kernel_size,
                 input_shape |-> input_shape, kwargs |-> kwargs]
       IN /\ cls' = "Conv1D"
          /\ given' = g
          /\ Delegate(Conv1D_args(g), kwargs, raises)

Cropping1D_init ==
  /\ CanInstantiate
  /\ \E cropping \in PaddingInputs, input_shape \in ShapeInputs,
        kwargs \in KwInputs, raises \in BOOLEAN :
       LET g == [cropping |-> cropping, input_shape |-> input_shape,
                 kwargs |-> kwargs]
       IN /\ cls' = "Cropping1D"
          /\ given' = g
          /\ Delegate(Cropping1D_args(g), kwargs, raises)

ZeroPadding1D_init ==
  /\ CanInstantiate
  /\ \E padding \in PaddingInputs, input_shape \in ShapeInputs,
        kwargs \in KwInputs, raises \in BOOLEAN :
       LET g == [padding |-> padding, input_shape |-> input_shape,
                 kwargs |-> kwargs]
       IN /\ cls' = "ZeroPadding1D"
          /\ given' = g
          /\ Delegate(ZeroPadding1D_args(g), kwargs, raises)

ZeroPadding2D_init ==
  /\ CanInstantiate
  /\ \E padding \in PaddingInputs, data_format \in DataFormatInputs,
        input_shape \in ShapeInputs, kwargs \in KwInputs, raises \in BOOLEAN :
       LET g == [padding |-> padding, data_format |-> data_format,
                 input_shape |-> input_shape, kwargs |-> kwargs]
       IN /\ cls' = "ZeroPadding2D"
          /\ given' = g
          /\ Delegate(ZeroPadding2D_args(g), kwargs, raises)

\* The caller receives the new layer or the exception and goes on; the
\* collaborator keeps the calls it has seen.
CallerContinues ==
  /\ cls # "none"
  /\ cls' = "none"
  /\ given' = NoArgs
  /\ outcome' = "none"
  /\ error' = None_
  /\ forwarded' = <<>>
  /\ fwdKw' = MkDict(<<>>)
  /\ UNCHANGED baseCalls

Next ==
  \/ Conv1D_init
  \/ Cropping1D_init
  \/ ZeroPadding1D_init
  \/ ZeroPadding2D_init
  \/ CallerContinues

Spec == Init /\ [][Next]_vars

\* ------------------------------------------------------------ properties
\* The pending instantiation reached the super().__init__ call.
Called == forwarded # <<>>

\* The caller passed a tuple or list of n elements as x.
IsSeqOfLen(x, n) == IsSeq(x) /\ Len(x.e) = n

\* The input shape the collaborator received: the last positional argument.
FwdShape == forwarded[Len(forwarded)]

\* C1: ZeroPadding1D given an integer padding P forwards the pair (P, P) as
\* the padding argument of the base-class constructor.
C1_ScalarPaddingBecomesPair ==
  (cls = "ZeroPadding1D" /\ Called /\ given.padding.t \in {"int", "bool"})
    => forwarded[2] = MkTuple(<<given.padding, given.padding>>)

C1_Witness ==
  /\ cls = "ZeroPadding1D" /\ outcome = "ok"
  /\ given.padding.t = "int" /\ given.padding.n = MaxPad

\* C2: ZeroPadding2D given a padding of length 2, (a, b), forwards the
\* 4-tuple (a, a, b, b): top = bottom = a, left = right = b.
C2_PairPaddingBecomesQuad ==
  (cls = "ZeroPadding2D" /\ Called /\ IsSeqOfLen(given.padding, 2))
    => forwarded[2] = MkTuple(<<given.padding.e[1], given.padding.e[1],
                                given.padding.e[2], given.padding.e[2]>>)

C2_Witness ==
  /\ cls = "ZeroPadding2D" /\ outcome = "ok"
  /\ IsSeqOfLen(given.padding, 2)
  /\ given.padding.e[1] # given.padding.e[2]

\* A parameter the caller passed arrives at position i with the caller's value.
PassedAt(name, i) == given[name] # Omitted => forwarded[i] = given[name]

\* C3: the base-class constructor receives None first, then the parameters of
\* the layer kind in the order of the signature, then the normalized input
\* shape last, and the caller's keyword options unchanged; every parameter
\* other than the ZeroPadding padding arrives with the value the caller gave.
C3_PositionalOrder ==
  Called =>
    /\ forwarded[1] = None_
    /\ FwdShape.t \in {"NoneType", "list"}
    /\ fwdKw = given.kwargs
    /\ cls = "Conv1D" =>
         /\ Len(forwarded) = 12
         /\ forwarded[2] = given.filters
         /\ forwarded[3] = given.kernel_size
         /\ PassedAt("strides", 4)
         /\ PassedAt("padding", 5)
         /\ PassedAt("activation", 6)
         /\ PassedAt("use_bias", 7)
         /\ PassedAt("kernel_initializer", 8)
         /\ PassedAt("bias_initializer", 9)
         /\ PassedAt("kernel_regularizer", 10)
         /\ PassedAt("bias_regularizer", 11)
    /\ cls = "Cropping1D" =>
         /\ Len(forwarded) = 3
         /\ PassedAt("cropping", 2)
    /\ cls = "ZeroPadding1D" =>
         /\ Len(forwarded) = 3
         /\ given.padding.t \in {"tuple", "list", "int", "bool"}
              => forwarded[2].t \in {"tuple", "list"}
    /\ cls = "ZeroPadding2D" =>
         /\ Len(forwarded) = 4
         /\ forwarded[2].t \in {"tuple", "list"}
         /\ PassedAt("data_format", 3)

C3_Witness ==
  /\ cls = "Conv1D" /\ outcome = "ok"
  /\ \A k \in ConvOptNames : given[k] # Omitted
  /\ given.kwargs # MkDict(<<>>)

\* C4: an instantiation makes at most one call to the base-class constructor,
\* and an instantiation that completes makes exactly one.
C4_ExactlyOneBaseCall ==
  [][(cls = "none" /\ cls' # "none") =>
       /\ baseCalls' \in {baseCalls, baseCalls + 1}
       /\ outcome' = "ok" => (baseCalls' = baseCalls + 1 /\ forwarded' # <<>>)
       /\ (baseCalls' = baseCalls) = (forwarded' = <<>>)]_vars

C4_Witness == cls # "none" /\ outcome = "ok" /\ baseCalls = MaxCalls

\* C5 as stated: an input_shape given as a sequence is forwarded as a list of
\* the same elements in the same order; None (or nothing) is forwarded as None.
C5_Original ==
  Called =>
    /\ IsSeq(given.input_shape) => FwdShape = MkList(given.input_shape.e)
    /\ given.input_shape \in {Omitted, None_} => FwdShape = None_

\* C5, amended: an input_shape given as a non-empty sequence is forwarded as a
\* list of the same elements in the same order; an input_shape that is not
\* given, None or an empty sequence is forwarded as None.
C5_NonEmptyShapeForwardedAsList ==
  Called =>
    /\ (IsSeq(given.input_shape) /\ Len(given.input_shape.e) > 0)
         => FwdShape = MkList(given.input_shape.e)
    /\ (given.input_shape \in {Omitted, None_} \/ IsSeqOfLen(given.input_shape, 0))
         => FwdShape = None_

C5_Witness ==
  /\ outcome = "ok"
  /\ given.input_shape = MkTuple(<<None_, MkInt(128)>>)
  /\ FwdShape = MkList(<<None_, MkInt(128)>>)

\* C6: a canonical padding is forwarded unchanged (a pair by ZeroPadding1D, a
\* 4-tuple by ZeroPadding2D), and normalizing the forwarded padding again
\* gives the forwarded padding.
C6_CanonicalPaddingUnchanged ==
  /\ (cls = "ZeroPadding1D" /\ Called) =>
       /\ IsSeqOfLen(given.padding, 2) => forwarded[2] = given.padding
       /\ ZeroPadding1D_padding(forwarded[2]) = forwarded[2]
  /\ (cls = "ZeroPadding2D" /\ Called) =>
       /\ IsSeqOfLen(given.padding, 4) => forwarded[2] = given.padding
       /\ ZeroPadding2D_padding(forwarded[2]) = forwarded[2]

C6_Witness ==
  /\ cls = "ZeroPadding2D" /\ outcome = "ok"
  /\ IsSeqOfLen(given.padding, 4)
  /\ given.padding.e[1] # given.padding.e[2]
  /\ given.padding.e[3] # given.padding.e[4]

\* A parameter the caller omitted arrives at position i as the default d.
DefaultAt(name, i, d) == given[name] = Omitted => forwarded[i] = d

\* C7: an omitted optional argument reaches the base-class constructor as its
\* documented default, after normalization.
C7_DefaultsForwarded ==
  Called =>
    /\ given.input_shape = Omitted => FwdShape = None_
    /\ cls = "Conv1D" =>
         /\ DefaultAt("strides", 4, MkInt(1))
         /\ DefaultAt("padding", 5, MkStr("valid"))
         /\ DefaultAt("activation", 6, None_)
         /\ DefaultAt("use_bias", 7, MkBool(TRUE))
         /\ DefaultAt("kernel_initializer", 8, MkStr("glorot_uniform"))
         /\ DefaultAt("bias_initializer", 9, MkStr("zero"))
         /\ DefaultAt("kernel_regularizer", 10, None_)
         /\ DefaultAt("bias_regularizer", 11, None_)
    /\ cls = "Cropping1D" =>
         DefaultAt("cropping", 2, MkTuple(<<MkInt(1), MkInt(1)>>))
    /\ cls = "ZeroPadding1D" =>
         DefaultAt("padding", 2, MkTuple(<<MkInt(1), MkInt(1)>>))
    /\ cls = "ZeroPadding2D" =>
         /\ DefaultAt("padding", 2, MkTuple(<<MkInt(1), MkInt(1), MkInt(1), MkInt(1)>>))
         /\ DefaultAt("data_format", 3, MkStr("channels_first"))

C7_Witness ==
  /\ cls = "ZeroPadding2D" /\ outcome = "ok"
  /\ given.padding = Omitted /\ given.data_format = Omitted
  /\ given.input_shape = Omitted

\* The padding the caller passed is a sequence of a length the class does not
\* document.
Malformed ==
  \/ cls = "ZeroPadding1D" /\ IsSeq(given.padding) /\ Len(given.padding.e) # 2
  \/ cls = "ZeroPadding2D" /\ IsSeq(given.padding) /\ Len(given.padding.e) \notin {2, 4}

\* C8: the wrapper raises no error of its own and catches none: an exception
\* that reaches the caller is the one raised by len(), by list() or by the
\* base-class constructor, and a malformed padding whose normalization does
\* not raise is forwarded unchanged, the instantiation succeeding unless the
\* base-class constructor raises.
C8_NoErrorOfItsOwn ==
  /\ outcome = "raised" =>
       \/ error \in {TypeError("len"), TypeError("list")} /\ ~Called
       \/ error.t = "BaseError" /\ Called
  /\ outcome = "ok" => (error = None_ /\ Called)
  /\ (cls # "none" /\ Malformed /\ NormShape(Bind(given.input_shape, None_)).t # "TypeError") =>
       /\ Called
       /\ forwarded[2] = given.padding
       /\ outcome = "raised" => error.t = "BaseError"

C8_Witness ==
  /\ cls = "ZeroPadding2D" /\ outcome = "ok"
  /\ IsSeqOfLen(given.padding, 3)

\* C9: the forwarded input shape is None or a non-empty list, never an empty
\* list; an empty input_shape is forwarded as None.
C9_ForwardedShapeNeverEmpty ==
  Called =>
    /\ FwdShape = None_ \/ (FwdShape.t = "list" /\ Len(FwdShape.e) > 0)
    /\ IsSeqOfLen(given.input_shape, 0) => FwdShape = None_

C9_Witness ==
  /\ outcome = "ok"
  /\ given.input_shape = MkList(<<>>)
  /\ FwdShape = None_

\* C10: an instantiation whose normalization raises makes no call to the
\* base-class constructor; ZeroPadding2D given a scalar integer padding raises
\* while taking its length and the collaborator is not called.
C10_NormalizationBeforeDelegation ==
  [][(cls = "none" /\ cls' # "none") =>
       /\ (outcome' = "raised" /\ error'.t = "TypeError")
            => (baseCalls' = baseCalls /\ forwarded' = <<>>)
       /\ (cls' = "ZeroPadding2D" /\ IsInstanceInt(given'.padding))
            => /\ outcome' = "raised"
               /\ error' = TypeError("len")
               /\ baseCalls' = baseCalls]_vars

C10_Witness ==
  /\ cls = "ZeroPadding2D" /\ outcome = "raised"
  /\ given.padding = MkInt(MaxPad)
  /\ baseCalls = MaxCalls - 1
  /\ ~Called

====
